---- MODULE Spec2Model ----
(***************************************************************************)
(* ServicePi IoT API service (src/configs/iot/app.py): the in-memory       *)
(* reading sequence sensor_data, the device map device_status and the      *)
(* Flask handlers that read and mutate them.                               *)
(*                                                                         *)
(* JSON values.  A request body is Absent, Invalid (not parseable) or a    *)
(* JSON value: an object Obj(f) with f a function from keys to scalars, an *)
(* array Arr(s), a number Num(n).  Scalars inside objects are written as   *)
(* their JSON text ("30.1", "offline", "null"); ListValue is the text of a *)
(* JSON array used as a field value, the one unhashable scalar.            *)
(*                                                                         *)
(* Spec     : requests served one at a time, one action per handler.       *)
(* SpecConc : the handlers as the threaded server of app.run interleaves   *)
(*            them, one action per statement that touches shared state.    *)
(***************************************************************************)
EXTENDS Integers, Sequences, FiniteSets, TLC

VARIABLES
    sensor_data,    \* the module-level list of stored readings
    device_status,  \* the module-level dict: device id -> record
    request,        \* Spec: the request served last
    response,       \* Spec: the answer it got
    posts_ok,       \* Spec: how many POSTs of readings were answered 201
    threads         \* SpecConc: each server thread's request, position and locals

vars == <<sensor_data, device_status, request, response, posts_ok, threads>>

\* TLC sorts a record's fields by the order in which their names are first
\* mentioned in the module.  Every record below lists its fields in this one
\* order, so that its values are in normal form as written.
FieldOrder ==
    [sensor_data |-> 1, device_status |-> 2, request |-> 3, response |-> 4,
     kind |-> 5, fields |-> 6, items |-> 7, n |-> 8,
     pc |-> 9, method |-> 10, path |-> 11, success |-> 12,
     device_id |-> 13, device |-> 14, status |-> 15, json |-> 16,
     body |-> 17, sensor_type |-> 18, value |-> 19, last_reading |-> 20,
     unit |-> 21, location |-> 22, service |-> 23, uptime |-> 24,
     version |-> 25, api_port |-> 26, ssl_enabled |-> 27, data |-> 28,
     count |-> 29, error |-> 30, details |-> 31, devices |-> 32,
     sensors |-> 33, total_sensor_readings |-> 34, total_devices |-> 35, online_devices |-> 36,
     system |-> 37, statistics |-> 38, service_communication |-> 39, web_backend |-> 40,
     response_time |-> 41, portainer |-> 42, timestamp |-> 43, endpoints |-> 44]

-----------------------------------------------------------------------------
(* Bounds and program constants *)

MaxReadings == 2

NumThreads == 3

RecentLimit == 100

API_PORT == 8080

SERVICE_NAME == "ServicePi IoT"

-----------------------------------------------------------------------------
(* JSON values and request bodies *)

Absent == [kind |-> "absent"]

Invalid == [kind |-> "invalid"]

None == [kind |-> "null"]

Obj(f) == [kind |-> "object", fields |-> f]

Arr(s) == [kind |-> "array", items |-> s]

Num(n) == [kind |-> "number", n |-> n]

JsonNull == "null"

ListValue == "[\"temperature_sensor\"]"

UtcNow == "utcnow"

ClientTime == "2024-01-15T10:30:00"

Range(s) == {s[i] : i \in 1..Len(s)}

-----------------------------------------------------------------------------
(* Python and Flask primitives the handlers use *)

\* request.get_json() raises werkzeug's BadRequest on a body that does not parse
GetJsonRaises(body) == body = Invalid

\* request.get_json(): None without a JSON body, the parsed value otherwise
get_json(body) == IF body = Absent THEN None ELSE body

\* `not data`
Falsy(data) ==
    \/ data = None
    \/ data.kind = "object" /\ DOMAIN data.fields = {}
    \/ data.kind = "array" /\ data.items = <<>>
    \/ data.kind = "number" /\ data.n = 0

\* `key in data` raises TypeError on a value that is no container
InRaises(data) == data.kind \notin {"object", "array"}

\* `key in data`: a key of a dict, an element of a list
In(key, data) ==
    IF data.kind = "object" THEN key \in DOMAIN data.fields
    ELSE key \in Range(data.items)

\* data[key] = ... and data[key] raise TypeError unless data is a dict
ItemRaises(data) == data.kind # "object"

\* hash(value) raises TypeError on a list
Hashable(value) == value # ListValue

\* dict.update(other) on dicts: shallow key overwrite, other keys retained
DictUpdate(rec, other) ==
    [k \in DOMAIN rec \cup DOMAIN other |->
        IF k \in DOMAIN other THEN other[k] ELSE rec[k]]

\* data.get(key): None when the key is missing
DictGet(fields, key) == IF key \in DOMAIN fields THEN fields[key] ELSE JsonNull

\* seq[-n:]
LastN(s, n) == IF Len(s) <= n THEN s ELSE SubSeq(s, Len(s) - n + 1, Len(s))

\* sum(1 for d in device_status.values() if d['status'] == 'online')
OnlineDevices(ds) == Cardinality({d \in DOMAIN ds : ds[d]["status"] = "online"})

-----------------------------------------------------------------------------
(* Responses *)

\* jsonify(body), status
Json(status, body) == [status |-> status, json |-> TRUE, body |-> body]

\* the framework's own HTML error page: no JSON body
ErrorPage(status) == [status |-> status, json |-> FALSE, body |-> <<>>]

Result(sd, ds, resp) == [sensor_data |-> sd, device_status |-> ds, response |-> resp]

-----------------------------------------------------------------------------
(* Module state at import *)

InitialDevices ==
    [temperature_sensor |-> [status |-> "online", last_reading |-> "22.5", unit |-> "degC"],
     humidity_sensor    |-> [status |-> "online", last_reading |-> "65.2", unit |-> "%"],
     motion_sensor      |-> [status |-> "online", last_reading |-> "false", unit |-> "boolean"]]

-----------------------------------------------------------------------------
(* sensor_data_endpoint, POST: the statements of lines 78-93 *)

\* variant of NoDataProvided: the body is stored before it is rejected
NoDataStored(sd, ds, data) ==
    Result(Append(sd, data), ds, Json(400, [error |-> "No data provided"]))

\* lines 79-80: the 400 answer, nothing stored
NoDataProvided(sd, ds, data) ==
    Result(sd, ds, Json(400, [error |-> "No data provided"]))

\* lines 83-84: data['timestamp'] = utcnow, only when the key is missing
Stamp(data) ==
    IF In("timestamp", data) THEN data
    ELSE Obj(DictUpdate(data.fields, "timestamp" :> UtcNow))

\* line 89: 'sensor_type' in data and data['sensor_type'] in device_status
DeviceKnown(ds, data) == data.fields["sensor_type"] \in DOMAIN ds

\* variant of SetLastReading: the reading is written to every device
SetLastReadingAll(ds, data) ==
    [d \in DOMAIN ds |->
        DictUpdate(ds[d], "last_reading" :> DictGet(data.fields, "value"))]

\* line 90: device_status[sensor_type]['last_reading'] = data.get('value')
SetLastReading(ds, data) ==
    [ds EXCEPT ![data.fields["sensor_type"]] =
        DictUpdate(@, "last_reading" :> DictGet(data.fields, "value"))]

\* variant of SetStatusOnline: the status is left as it was
SetStatusSkipped(ds, data) == ds

\* line 91: device_status[sensor_type]['status'] = 'online'
SetStatusOnline(ds, data) ==
    [ds EXCEPT ![data.fields["sensor_type"]] = DictUpdate(@, "status" :> "online")]

\* line 93
Created(data) == Json(201, [success |-> TRUE, data |-> data])

\* variant of UpdateDeviceStatus: an unknown sensor_type gets a record of its own
UpdateDeviceStatusCreate(ds, data) ==
    LET d == data.fields["sensor_type"]
        old == IF d \in DOMAIN ds THEN ds[d] ELSE <<>>
    IN [k \in DOMAIN ds \cup {d} |->
           IF k = d
           THEN DictUpdate(old, ("last_reading" :> DictGet(data.fields, "value"))
                                   @@ ("status" :> "online"))
           ELSE ds[k]]

\* lines 89-91
UpdateDeviceStatus(ds, data) ==
    IF DeviceKnown(ds, data) THEN SetStatusOnline(SetLastReading(ds, data), data) ELSE ds

\* lines 76-93
sensor_data_post(body, sd, ds) ==
    IF GetJsonRaises(body) THEN Result(sd, ds, ErrorPage(400))
    ELSE LET data == get_json(body) IN
    IF Falsy(data) THEN NoDataProvided(sd, ds, data)
    ELSE IF InRaises(data) THEN Result(sd, ds, ErrorPage(500))
    ELSE IF ~In("timestamp", data) /\ ItemRaises(data) THEN Result(sd, ds, ErrorPage(500))
    ELSE LET stamped == Stamp(data)
             stored == Append(sd, stamped)
         IN IF ~In("sensor_type", stamped) THEN Result(stored, ds, Created(stamped))
            ELSE IF ItemRaises(stamped) \/ ~Hashable(stamped.fields["sensor_type"])
                 THEN Result(stored, ds, ErrorPage(500))
            ELSE Result(stored, UpdateDeviceStatus(ds, stamped), Created(stamped))

\* lines 68-74
sensor_data_get(sd, ds) ==
    Result(sd, ds, Json(200, [data |-> LastN(sd, RecentLimit), count |-> Len(sd),
                              timestamp |-> UtcNow]))

\* lines 65-93
sensor_data_endpoint(method, body, sd, ds) ==
    IF method = "GET" THEN sensor_data_get(sd, ds) ELSE sensor_data_post(body, sd, ds)

-----------------------------------------------------------------------------
(* device_endpoint: lines 105-129 *)

\* line 124: update raises on a number (not iterable) and on a list of strings
\* (no sequence of key/value pairs)
UpdateRaises(data) == data.kind # "object"

\* variant of MergeDevice: the record is replaced by the body
MergeDeviceReplace(rec, data) == data.fields

\* line 124: device_status[device_id].update(data)
MergeDevice(rec, data) == DictUpdate(rec, data.fields)

NotFound(sd, ds) == Result(sd, ds, Json(404, [error |-> "Device not found"]))

\* lines 111-129: the handler once the device is known
device_found(method, device_id, body, sd, ds) ==
    IF method = "GET"
    THEN Result(sd, ds, Json(200, [device_id |-> device_id, device |-> ds[device_id],
                                   timestamp |-> UtcNow]))
    ELSE IF GetJsonRaises(body) THEN Result(sd, ds, ErrorPage(400))
    ELSE LET data == get_json(body) IN
    IF Falsy(data) THEN Result(sd, ds, Json(400, [error |-> "No data provided"]))
    ELSE IF UpdateRaises(data) THEN Result(sd, ds, ErrorPage(500))
    ELSE LET merged == [ds EXCEPT ![device_id] = MergeDevice(@, data)]
         IN Result(sd, merged, Json(200, [success |-> TRUE, device_id |-> device_id,
                                          device |-> merged[device_id]]))

\* variant of device_endpoint: the body is checked before the device is looked up
device_endpoint_body_first(method, device_id, body, sd, ds) ==
    IF method = "PUT" /\ GetJsonRaises(body) THEN Result(sd, ds, ErrorPage(400))
    ELSE IF method = "PUT" /\ Falsy(get_json(body))
    THEN Result(sd, ds, Json(400, [error |-> "No data provided"]))
    ELSE IF device_id \notin DOMAIN ds THEN NotFound(sd, ds)
    ELSE device_found(method, device_id, body, sd, ds)

\* lines 105-129
device_endpoint(method, device_id, body, sd, ds) ==
    IF device_id \notin DOMAIN ds THEN NotFound(sd, ds)
    ELSE device_found(method, device_id, body, sd, ds)

-----------------------------------------------------------------------------
(* The read-only handlers and the peer check *)

\* lines 32-46
root ==
    Json(200, [service |-> SERVICE_NAME, version |-> "1.0.0", timestamp |-> UtcNow,
               endpoints |-> <<"/health", "/api/sensors", "/api/sensors/data",
                               "/api/devices", "/api/system/info">>])

\* lines 48-55
health_check ==
    Json(200, [status |-> "healthy", service |-> SERVICE_NAME, timestamp |-> UtcNow])

\* lines 57-63
get_sensors(ds) == Json(200, [sensors |-> ds, timestamp |-> UtcNow])

\* lines 95-103
get_devices(ds) ==
    Json(200, [devices |-> ds, total_devices |-> Cardinality(DOMAIN ds),
               online_devices |-> OnlineDevices(ds), timestamp |-> UtcNow])

\* lines 131-148
system_info(sd, ds) ==
    Json(200, [system |-> [service |-> SERVICE_NAME, uptime |-> "Running",
                           version |-> "1.0.0", api_port |-> API_PORT,
                           ssl_enabled |-> FALSE],
               statistics |-> [total_sensor_readings |-> Len(sd),
                               total_devices |-> Cardinality(DOMAIN ds),
                               online_devices |-> OnlineDevices(ds)],
               timestamp |-> UtcNow])

\* what requests.get on the peer's /health does: a status code, or an exception
PeerOutcomes == {"200", "503", "exception"}

\* lines 150-177
communicate_with_services(peer) ==
    IF peer = "exception"
    THEN Json(500, [error |-> "Communication failed", details |-> "exception text",
                    timestamp |-> UtcNow])
    ELSE Json(200, [service_communication |->
                       [web_backend |-> [status |-> IF peer = "200" THEN "healthy"
                                                    ELSE "unhealthy",
                                         response_time |-> "elapsed"],
                        portainer |-> [status |-> "accessible"]],
                    timestamp |-> UtcNow])

-----------------------------------------------------------------------------
(* Requests *)

DataPath == "/api/sensors/data"

DevicePath == "/api/devices/<device_id>"

Req(method, path, device_id, body) ==
    [method |-> method, path |-> path, device_id |-> device_id, body |-> body]

NoRequest == Req("NONE", "", "", Absent)

NoResponse == ErrorPage(0)

\* bodies posted to /api/sensors/data
SensorBodies ==
    {Absent, Invalid, Obj(<<>>),
     Obj([sensor_type |-> "temperature_sensor"]),
     Obj([value |-> "30.1"]),
     Obj([sensor_type |-> "temperature_sensor", value |-> "30.1"]),
     Obj([sensor_type |-> "humidity_sensor", value |-> "30.1"]),
     Obj([sensor_type |-> ListValue, value |-> "30.1"]),
     Obj([sensor_type |-> "unknown_sensor", value |-> "30.1"]),
     Obj([sensor_type |-> "temperature_sensor", value |-> "30.1",
          timestamp |-> ClientTime]),
     Arr(<<"timestamp">>), Num(7)}

\* bodies put to /api/devices/<device_id>
DeviceBodies ==
    {Absent, Invalid, Obj(<<>>),
     Obj([status |-> "offline"]),
     Obj([status |-> "offline", last_reading |-> "18.0", location |-> "lab"]),
     Num(7)}

\* device ids asked for
AskedIds == {"temperature_sensor", "unknown_id"}

\* the dispatch of the two handlers that touch shared state
Handle(req, sd, ds) ==
    IF req.path = DataPath THEN sensor_data_endpoint(req.method, req.body, sd, ds)
    ELSE device_endpoint(req.method, req.device_id, req.body, sd, ds)

-----------------------------------------------------------------------------
(* Spec: one request at a time *)

Init ==
    /\ sensor_data = <<>>
    /\ device_status = InitialDevices
    /\ request = NoRequest
    /\ response = NoResponse
    /\ posts_ok = 0
    /\ threads = <<>>

Serve(req, res) ==
    /\ request' = req
    /\ response' = res.response
    /\ sensor_data' = res.sensor_data
    /\ device_status' = res.device_status
    /\ UNCHANGED threads

Answer(req, resp) ==
    /\ Serve(req, Result(sensor_data, device_status, resp))
    /\ UNCHANGED posts_ok

Root == Answer(Req("GET", "/", "", Absent), root)

HealthCheck == Answer(Req("GET", "/health", "", Absent), health_check)

GetSensors == Answer(Req("GET", "/api/sensors", "", Absent), get_sensors(device_status))

GetDevices == Answer(Req("GET", "/api/devices", "", Absent), get_devices(device_status))

SystemInfo ==
    Answer(Req("GET", "/api/system/info", "", Absent),
           system_info(sensor_data, device_status))

Communicate ==
    \E peer \in PeerOutcomes :
        Answer(Req("POST", "/api/system/communicate", "", Absent),
               communicate_with_services(peer))

SensorDataGet ==
    /\ Serve(Req("GET", DataPath, "", Absent),
             sensor_data_endpoint("GET", Absent, sensor_data, device_status))
    /\ UNCHANGED posts_ok

SensorDataPost ==
    \E body \in SensorBodies :
        LET res == sensor_data_endpoint("POST", body, sensor_data, device_status)
        IN /\ Len(res.sensor_data) <= MaxReadings
           /\ Serve(Req("POST", DataPath, "", body), res)
           /\ posts_ok' = IF res.response.status = 201 THEN posts_ok + 1 ELSE posts_ok

DeviceGet ==
    \E id \in AskedIds :
        /\ Serve(Req("GET", DevicePath, id, Absent),
                 device_endpoint("GET", id, Absent, sensor_data, device_status))
        /\ UNCHANGED posts_ok

DevicePut ==
    \E id \in AskedIds, body \in DeviceBodies :
        /\ Serve(Req("PUT", DevicePath, id, body),
                 device_endpoint("PUT", id, body, sensor_data, device_status))
        /\ UNCHANGED posts_ok

Next ==
    \/ Root
    \/ HealthCheck
    \/ GetSensors
    \/ GetDevices
    \/ SystemInfo
    \/ Communicate
    \/ SensorDataGet
    \/ SensorDataPost
    \/ DeviceGet
    \/ DevicePut

Spec == Init /\ [][Next]_vars

-----------------------------------------------------------------------------
(* Properties of Spec *)

IsDataPost(req) == req.method = "POST" /\ req.path = DataPath

IsDevice(req, method) == req.method = method /\ req.path = DevicePath

\* the body is a JSON object that names a known device in sensor_type
NamesDevice(body, ds) ==
    /\ body.kind = "object"
    /\ "sensor_type" \in DOMAIN body.fields
    /\ body.fields["sensor_type"] \in DOMAIN ds

\* C1: a GET of device d served right after a POST answered 201 whose body had
\* sensor_type d and value v returns last_reading v and status "online",
\* whatever the record held before the POST.
C1_PostThenGet ==
    [][(/\ IsDataPost(request) /\ response.status = 201
        /\ NamesDevice(request.body, device_status)
        /\ "value" \in DOMAIN request.body.fields
        /\ IsDevice(request', "GET")
        /\ request'.device_id = request.body.fields["sensor_type"])
       => (/\ response'.status = 200
           /\ response'.body.device["last_reading"] = request.body.fields["value"]
           /\ response'.body.device["status"] = "online")]_vars

\* C1 witness: the record has a location, which only the PUT that also sets
\* status "offline" and last_reading 18.0 adds; a later POST set the reading to
\* 30.1, and the GET shows the device online.
C1_Witness ==
    /\ IsDevice(request, "GET") /\ request.device_id = "temperature_sensor"
    /\ response.status = 200
    /\ "location" \in DOMAIN response.body.device
    /\ response.body.device["last_reading"] = "30.1"
    /\ response.body.device["status"] = "online"

\* C2 (as amended): a POST of a reading answered 400 leaves the reading sequence
\* and the device map as they were, and a POST is answered 400 only when its
\* body is absent, not valid JSON, or an empty (falsy) JSON value such as {}.
C2_RejectedLeavesState ==
    [][(IsDataPost(request') /\ response'.status = 400)
       => (/\ sensor_data' = sensor_data
           /\ device_status' = device_status
           /\ \/ request'.body \in {Absent, Invalid}
              \/ Falsy(request'.body))]_vars

\* C2 (as claimed): ... a POST is answered 400 only when its body is absent or
\* not valid JSON.
C2_Original ==
    [][(IsDataPost(request') /\ response'.status = 400)
       => (/\ sensor_data' = sensor_data
           /\ device_status' = device_status
           /\ request'.body \in {Absent, Invalid})]_vars

\* C2 witness: the empty object was rejected while readings were stored and a
\* device had been changed.
C2_Witness ==
    /\ IsDataPost(request) /\ request.body = Obj(<<>>)
    /\ response.status = 400
    /\ Len(sensor_data) > 0
    /\ device_status # InitialDevices

Min(a, b) == IF a <= b THEN a ELSE b

\* C3 (as claimed): after any requests of which exactly N POSTs of readings
\* succeeded, GET /api/sensors/data reports count N and lists the min(N,100)
\* most recent stored readings in submission order.
C3_CountIsSuccessfulPosts ==
    (request.method = "GET" /\ request.path = DataPath)
    => (/\ response.body.count = posts_ok
        /\ Len(response.body.data) = Min(posts_ok, RecentLimit)
        /\ response.body.data = LastN(sensor_data, Min(posts_ok, RecentLimit)))

\* C4: a PUT answered 200 on a known device overwrites exactly the keys of its
\* body in that device's record, keeps the record's other fields, every other
\* record and the reading sequence, and serving the same PUT again changes
\* nothing more.
C4_PutMerges ==
    [][(IsDevice(request', "PUT") /\ response'.status = 200)
       => LET d == request'.device_id
              b == request'.body.fields
          IN /\ sensor_data' = sensor_data
             /\ DOMAIN device_status' = DOMAIN device_status
             /\ \A o \in DOMAIN device_status \ {d} : device_status'[o] = device_status[o]
             /\ DOMAIN device_status'[d] = DOMAIN device_status[d] \cup DOMAIN b
             /\ \A k \in DOMAIN b : device_status'[d][k] = b[k]
             /\ \A k \in DOMAIN device_status[d] \ DOMAIN b :
                    device_status'[d][k] = device_status[d][k]
             /\ response'.body.device = device_status'[d]
             /\ device_endpoint("PUT", d, request'.body, sensor_data',
                                device_status').device_status = device_status']_vars

\* C4 witness: PUT {"status": "offline"} on a device whose reading a POST had
\* set: only status changed.
C4_Witness ==
    /\ IsDevice(request, "PUT") /\ request.body = Obj([status |-> "offline"])
    /\ response.status = 200
    /\ device_status["temperature_sensor"] =
           [status |-> "offline", last_reading |-> "30.1", unit |-> "degC"]

\* C5: GET or PUT on an id that is no key of the device map is answered 404
\* "Device not found" and changes nothing, whatever the body (the lookup comes
\* before the body check); PUT on a known id without a body is answered 400
\* and changes nothing.
C5_NotFoundFirst ==
    [][(request'.path = DevicePath)
       => /\ (request'.device_id \notin DOMAIN device_status)
              => /\ response' = Json(404, [error |-> "Device not found"])
                 /\ sensor_data' = sensor_data
                 /\ device_status' = device_status
          /\ (/\ request'.device_id \in DOMAIN device_status
              /\ request'.method = "PUT"
              /\ request'.body = Absent)
              => /\ response'.status = 400
                 /\ sensor_data' = sensor_data
                 /\ device_status' = device_status]_vars

\* C5 witness: a PUT without a body to an unknown id was answered 404.
C5_Witness ==
    /\ IsDevice(request, "PUT") /\ request.device_id = "unknown_id"
    /\ request.body = Absent
    /\ response.status = 404

DeviceIds == {"temperature_sensor", "humidity_sensor", "motion_sensor"}

\* C6: in every reachable state the keys of the device map are exactly the three
\* startup identifiers and every record has a status field.
C6_DeviceKeysFixed ==
    /\ DOMAIN device_status = DeviceIds
    /\ \A d \in DOMAIN device_status : "status" \in DOMAIN device_status[d]

\* C6 witness: a reading for an unknown sensor type was stored after a PUT had
\* added a field to a record.
C6_Witness ==
    /\ IsDataPost(request) /\ response.status = 201
    /\ request.body.kind = "object"
    /\ "sensor_type" \in DOMAIN request.body.fields
    /\ request.body.fields["sensor_type"] = "unknown_sensor"
    /\ "location" \in DOMAIN device_status["temperature_sensor"]

\* C7 (as claimed): every stored reading has a timestamp field.
C7_EveryReadingStamped ==
    \A i \in 1..Len(sensor_data) :
        /\ sensor_data[i].kind = "object"
        /\ "timestamp" \in DOMAIN sensor_data[i].fields

\* C8 (as claimed): every response is a JSON object with a top-level timestamp.
C8_EveryResponseStamped ==
    (request # NoRequest)
    => (response.json /\ "timestamp" \in DOMAIN response.body)

\* C10: a POST of a non-empty JSON object whose sensor_type is absent, or a
\* scalar that is no key of the device map, is answered 201, appends the
\* (stamped) reading and leaves the device map unchanged; a POST answered 201
\* for a known device d leaves every other record, and the unit of d, unchanged.
C10_PostFrame ==
    [][IsDataPost(request')
       => LET b == request'.body IN
          /\ (/\ b.kind = "object" /\ DOMAIN b.fields # {}
              /\ \/ "sensor_type" \notin DOMAIN b.fields
                 \/ /\ Hashable(b.fields["sensor_type"])
                    /\ b.fields["sensor_type"] \notin DOMAIN device_status)
             => /\ response'.status = 201
                /\ Len(sensor_data') = Len(sensor_data) + 1
                /\ SubSeq(sensor_data', 1, Len(sensor_data)) = sensor_data
                /\ \A k \in DOMAIN b.fields :
                       sensor_data'[Len(sensor_data')].fields[k] = b.fields[k]
                /\ device_status' = device_status
          /\ (response'.status = 201 /\ NamesDevice(b, device_status))
             => LET d == b.fields["sensor_type"] IN
                /\ DOMAIN device_status' = DOMAIN device_status
                /\ \A o \in DOMAIN device_status \ {d} :
                       device_status'[o] = device_status[o]
                /\ device_status'[d]["unit"] = device_status[d]["unit"]]_vars

\* C10 witness: a reading for an unknown sensor type is the last one stored,
\* and the device map is not the startup one (so "unchanged" says something).
C10_Witness ==
    /\ IsDataPost(request) /\ response.status = 201
    /\ request.body = Obj([sensor_type |-> "unknown_sensor", value |-> "30.1"])
    /\ Len(sensor_data) = 2
    /\ sensor_data[2].fields["sensor_type"] = "unknown_sensor"
    /\ device_status["temperature_sensor"]["status"] = "offline"
    /\ device_status["humidity_sensor"]["last_reading"] = "30.1"

-----------------------------------------------------------------------------
(* SpecConc: app.run serves each request on its own thread, and the handlers *)
(* take no lock.  A thread runs its handler statement by statement; a step  *)
(* is one statement that reads or writes sensor_data or device_status,      *)
(* together with the thread-local statements before it.                     *)

Threads == 1..NumThreads

\* the requests the threads serve
ConcRequests ==
    {Req("GET", DevicePath, "temperature_sensor", Absent),
     Req("PUT", DevicePath, "temperature_sensor",
         Obj([status |-> "offline", last_reading |-> "18.0"])),
     Req("POST", DataPath, "",
         Obj([sensor_type |-> "temperature_sensor", value |-> "30.1"]))}

Thread(req, resp, pc) == [request |-> req, response |-> resp, pc |-> pc]

InitConc ==
    /\ sensor_data = <<>>
    /\ device_status = InitialDevices
    /\ request = NoRequest
    /\ response = NoResponse
    /\ posts_ok = 0
    /\ threads \in [Threads -> {Thread(r, NoResponse, "start") : r \in ConcRequests}]

Goto(t, pc) == threads' = [threads EXCEPT ![t].pc = pc]

Done(t, resp) == threads' = [threads EXCEPT ![t].pc = "done", ![t].response = resp]

\* the handler's local `data` once stamped
Local(t) == Stamp(get_json(threads[t].request.body))

\* lines 78-84: parse, reject, stamp; nothing shared is touched
PostParse(t) ==
    /\ threads[t].pc = "start" /\ IsDataPost(threads[t].request)
    /\ LET body == threads[t].request.body IN
       IF GetJsonRaises(body) THEN Done(t, ErrorPage(400))
       ELSE IF Falsy(get_json(body))
       THEN Done(t, Json(400, [error |-> "No data provided"]))
       ELSE IF InRaises(get_json(body))
               \/ (~In("timestamp", get_json(body)) /\ ItemRaises(get_json(body)))
       THEN Done(t, ErrorPage(500))
       ELSE Goto(t, "append")
    /\ UNCHANGED <<sensor_data, device_status, request, response, posts_ok>>

\* line 86
PostAppend(t) ==
    /\ threads[t].pc = "append"
    /\ sensor_data' = Append(sensor_data, Local(t))
    /\ Goto(t, "check")
    /\ UNCHANGED <<device_status, request, response, posts_ok>>

\* line 89 (and line 93 when the reading names no known device)
PostCheck(t) ==
    /\ threads[t].pc = "check"
    /\ IF ~In("sensor_type", Local(t)) THEN Done(t, Created(Local(t)))
       ELSE IF ItemRaises(Local(t)) \/ ~Hashable(Local(t).fields["sensor_type"])
       THEN Done(t, ErrorPage(500))
       ELSE IF ~DeviceKnown(device_status, Local(t)) THEN Done(t, Created(Local(t)))
       ELSE Goto(t, "set_reading")
    /\ UNCHANGED <<sensor_data, device_status, request, response, posts_ok>>

\* line 90
PostSetReading(t) ==
    /\ threads[t].pc = "set_reading"
    /\ device_status' = SetLastReading(device_status, Local(t))
    /\ Goto(t, "set_status")
    /\ UNCHANGED <<sensor_data, request, response, posts_ok>>

\* lines 91-93
PostSetStatus(t) ==
    /\ threads[t].pc = "set_status"
    /\ device_status' = SetStatusOnline(device_status, Local(t))
    /\ Done(t, Created(Local(t)))
    /\ UNCHANGED <<sensor_data, request, response, posts_ok>>

\* lines 108-111
DeviceLookup(t) ==
    /\ threads[t].pc = "start" /\ threads[t].request.path = DevicePath
    /\ IF threads[t].request.device_id \notin DOMAIN device_status
       THEN Done(t, Json(404, [error |-> "Device not found"]))
       ELSE IF threads[t].request.method = "GET" THEN Goto(t, "read")
       ELSE Goto(t, "update")
    /\ UNCHANGED <<sensor_data, device_status, request, response, posts_ok>>

\* lines 112-116
DeviceRead(t) ==
    /\ threads[t].pc = "read"
    /\ Done(t, Json(200, [device_id |-> threads[t].request.device_id,
                          device |-> device_status[threads[t].request.device_id],
                          timestamp |-> UtcNow]))
    /\ UNCHANGED <<sensor_data, device_status, request, response, posts_ok>>

\* lines 119-124
DeviceUpdate(t) ==
    /\ threads[t].pc = "update"
    /\ LET body == threads[t].request.body
           id == threads[t].request.device_id
       IN IF GetJsonRaises(body)
          THEN Done(t, ErrorPage(400)) /\ UNCHANGED device_status
          ELSE IF Falsy(get_json(body))
          THEN /\ Done(t, Json(400, [error |-> "No data provided"]))
               /\ UNCHANGED device_status
          ELSE IF UpdateRaises(get_json(body))
          THEN Done(t, ErrorPage(500)) /\ UNCHANGED device_status
          ELSE /\ device_status' =
                      [device_status EXCEPT ![id] = MergeDevice(@, get_json(body))]
               /\ Goto(t, "reply")
    /\ UNCHANGED <<sensor_data, request, response, posts_ok>>

\* lines 125-129
DeviceReply(t) ==
    /\ threads[t].pc = "reply"
    /\ Done(t, Json(200, [success |-> TRUE,
                          device_id |-> threads[t].request.device_id,
                          device |-> device_status[threads[t].request.device_id]]))
    /\ UNCHANGED <<sensor_data, device_status, request, response, posts_ok>>

NextConc ==
    \E t \in Threads :
        \/ PostParse(t)
        \/ PostAppend(t)
        \/ PostCheck(t)
        \/ PostSetReading(t)
        \/ PostSetStatus(t)
        \/ DeviceLookup(t)
        \/ DeviceRead(t)
        \/ DeviceUpdate(t)
        \/ DeviceReply(t)

SpecConc == InitConc /\ [][NextConc]_vars

-----------------------------------------------------------------------------
(* Properties of SpecConc *)

\* the orders in which the threads' requests can be served one after another
Orders == {o \in [Threads -> Threads] : \A a, b \in Threads : a # b => o[a] # o[b]}

\* the state and the answers after serving the requests one at a time in order o,
\* from its i-th request on
RECURSIVE SeqRun(_, _, _)
SeqRun(o, i, st) ==
    IF i > NumThreads THEN st
    ELSE LET res == Handle(threads[o[i]].request, st.sensor_data, st.device_status)
         IN SeqRun(o, i + 1,
                   [sensor_data |-> res.sensor_data,
                    device_status |-> res.device_status,
                    response |-> [st.response EXCEPT ![o[i]] = res.response]])

AllDone == \A t \in Threads : threads[t].pc = "done"

\* C9 (as claimed): requests served concurrently take effect atomically: once all
\* have been answered, the reading sequence, the device map and every answer
\* (so every device record a GET observed) are those of serving the same
\* requests one at a time in some order.
C9_Serializable ==
    AllDone
    => \E o \in Orders :
          LET st == SeqRun(o, 1, [sensor_data |-> <<>>,
                                  device_status |-> InitialDevices,
                                  response |-> [t \in Threads |-> NoResponse]])
          IN /\ st.sensor_data = sensor_data
             /\ st.device_status = device_status
             /\ \A t \in Threads : st.response[t] = threads[t].response

====
